---- MODULE Spec2Model ----
(***************************************************************************)
(* Model of the incremental export script scripts/export-transactions.js:  *)
(* the cursor store (cursor.json), the drain of the Transactions Sync API  *)
(* (fetchTransactionsSync), the Transactions Get fallback                  *)
(* (fetchTransactionsGet) and main, which ties them to the export write.   *)
(*                                                                         *)
(* One run of main is a sequence of steps; a step ends where the script    *)
(* awaits the upstream API or the file system, or where the process can be *)
(* killed between a cursor write and an export write.  The upstream API is *)
(* an opaque collaborator: every response is drawn from a small set of     *)
(* pages, every request may fail.                                          *)
(***************************************************************************)
EXTENDS Integers, Sequences, FiniteSets, TLC

\* ------------------------------------------------------------------ bounds

\* Largest number of requests one drain (or one Get fetch) issues.
MaxPages == 2

\* count of options.count; the script uses 500, the model a page of 2 records
\* (the loop only compares a page's length with it).
batchSize == 2

\* ------------------------------------------------------------------ values

\* JavaScript null / undefined.
None == "<null>"

\* Opaque cursors the upstream can issue; "" is a string like any other.
Cursors == {"", "c1", "c2"}

\* JavaScript truthiness of a cursor value: null, undefined and "" are falsy.
Truthy(c) == c # None /\ c # ""

AccountOf(id) == IF id \in {"t3", "t6"} THEN "a2" ELSE "a1"

PendingOf(id) == id \in {"t2", "t5"}

\* A transaction as the upstream returns it (the fields the script's control
\* flow and export read).
Txn(id) == [transaction_id |-> id, account_id |-> AccountOf(id), pending |-> PendingOf(id)]

\* An entry of data.removed.
Removed(id) == [transaction_id |-> id]

\* What one sync response can carry.
SyncContents ==
  { [added |-> <<>>, modified |-> <<>>, removed |-> <<>>],
    [added |-> <<Txn("t1"), Txn("t2"), Txn("t3")>>, modified |-> <<>>, removed |-> <<>>],
    [added |-> <<Txn("t4")>>, modified |-> <<Txn("t5")>>, removed |-> <<Removed("t6")>>],
    [added |-> <<>>, modified |-> <<>>, removed |-> <<Removed("t1")>>] }

\* response.data of client.transactionsSync.
SyncPages ==
  { [added |-> k.added, modified |-> k.modified, removed |-> k.removed,
     has_more |-> h, next_cursor |-> c] : k \in SyncContents, h \in BOOLEAN, c \in Cursors }

\* response.data.transactions of client.transactionsGet: at most batchSize records.
GetPages == { <<>>, <<Txn("t1")>>, <<Txn("t2"), Txn("t3")>> }

\* How a request to the upstream can fail: the upstream's signal that
\* incremental sync is not available for the credential, or anything else
\* (network, rate limit, server error).
ErrorKinds == {"sync_unsupported", "generic"}

\* ------------------------------------------------------------- cursor file

\* cursor.json: absent, holding {cursor, updated_at}, or not parsable as JSON.
NoFile == [kind |-> "absent", cursor |-> None]

Unparsable == [kind |-> "unparsable", cursor |-> None]

JsonFile(c) == [kind |-> "json", cursor |-> c]

\* loadCursor: null when the file is absent, when reading or parsing throws,
\* and when json.cursor is falsy.
loadCursor(file) ==
  IF file.kind = "json" /\ Truthy(file.cursor) THEN file.cursor ELSE None

\* fs.writeFileSync(CURSOR_FILE, data): the file afterwards.  A write that
\* throws leaves the old file (the open failed) or a truncated one (the write
\* failed after the open truncated it).
writeFileOutcomes(file, c) ==
  { [ok |-> TRUE, file |-> JsonFile(c)],
    [ok |-> FALSE, file |-> file],
    [ok |-> FALSE, file |-> Unparsable] }

\* ------------------------------------------------------------------ state

VARIABLES
  cursorFile,          \* scripts/cursor.json
  exportFile,          \* the export file of the day: "absent", "written", "truncated"
  EXPORT_ACCOUNT_IDS,  \* null, or the account ids to keep
  pc,                  \* where the run of main stands
  site,                \* which call of fetchTransactionsSync is running
  cursor,              \* main: const cursor = loadCursor()
  added, modified, removed, hasMore, nextCursor,   \* locals of fetchTransactionsSync
  transactions, offset,                            \* locals of fetchTransactionsGet
  allTransactions,     \* main: let allTransactions
  normalizedTransactions,                          \* main: the rows handed to the export
  exitCode,            \* "running"; "0" on return, "1" on process.exit(1), "killed"
  \* history of the current run
  requests,            \* sync requests of the current drain, with the cursor held when built
  pages,               \* sync responses of the current drain
  getRequests,         \* offsets of the Get requests of the current fetch
  preRunFile,          \* cursorFile when the run started
  saved,               \* argument of the run's saveCursor call, or None
  saveOutcome,         \* "none", "ok", "failed"
  errors,              \* kinds of the request failures of the run
  syncErr,             \* kind of the failure that sent the run to the fallback
  exported             \* TRUE once the run's export write has succeeded

runVars == <<cursorFile, exportFile, EXPORT_ACCOUNT_IDS, pc, site, cursor, added, modified,
             removed, hasMore, nextCursor, transactions, offset, allTransactions,
             normalizedTransactions, exitCode, requests, pages, getRequests, preRunFile,
             saved, saveOutcome, errors, syncErr, exported>>

\* The credential of the script's process, and whose cursor cursor.json holds.
VARIABLES
  PLAID_ACCESS_TOKEN,  \* process.env.PLAID_ACCESS_TOKEN of the current run
  cursorWriter         \* the credential of the run that last wrote cursor.json, or None

credVars == <<PLAID_ACCESS_TOKEN, cursorWriter>>

\* The access tokens a run of the script can be started with.
Tokens == {"tokenA", "tokenB"}

\* A paginated fetch over transactionsGet: fetchAllTransactions (the server),
\* fetchTransactionsGet (the export script) or fetchTransactions (the Sheets
\* script), and the source it reads.
VARIABLES
  fetcher,             \* which of the three functions was called
  source,              \* the upstream: how many records it holds, and how it answers
  fpc,                 \* "idle", "awaiting" a response, "looping", "returned", "failed"
  fetchOffset,         \* let offset
  total,               \* let total (fetchAllTransactions, fetchTransactions)
  fetched,             \* let all / let transactions
  nRequests,           \* transactionsGet requests issued by the call, up to MaxRequests
  firstTotal           \* total_transactions of the call's first response

pageVars == <<fetcher, source, fpc, fetchOffset, total, fetched, nRequests, firstTotal>>

\* The Google Sheet and the two server endpoints that export to it.
VARIABLES
  sheet,               \* the data rows of the Transactions tab, in order
  headers,             \* TRUE once A1:H1 holds the headers
  cpc,                 \* per endpoint: where its handler stands
  sheetInput,          \* per endpoint: the transactions passed to appendTransactions
  existingIds,         \* per endpoint: const existingIds
  result,              \* per endpoint: what appendTransactions returned
  repeat,              \* per endpoint: the call repeats the input of the call just before it
  lastDone             \* the input of the call that ended last, and whether it returned

sheetVars == <<sheet, headers, cpc, sheetInput, existingIds, result, repeat, lastDone>>

\* One transaction put through one of the export mappings.
VARIABLES
  mapper,              \* the function that maps: normalizeTransactions, toSheetRows, appendTransactions
  mapInput,            \* the transaction t
  mapOutput,           \* the row made of t, or that the mapping threw
  mapAgain             \* the row made of the same t a second time

mapVars == <<mapper, mapInput, mapOutput, mapAgain>>

\* The export directory of the export script over the days.
VARIABLES
  exportDir,           \* the files of EXPORT_DIR: per date and extension, the rows, or no file
  today                \* the date new Date() gives

dirVars == <<exportDir, today>>

\* The token manager of the server, its callers and Secret Manager.
VARIABLES
  cachedAccessToken,   \* tokenManager.js line 9
  cachedItemId,        \* tokenManager.js line 10
  secretStore,         \* the latest version of each secret in Secret Manager
  getPc,               \* where each call of getAccessToken is
  getValue,            \* what getSecret gave the call, then what the call returned
  getAfterClear,       \* the call began after clearTokens completed, no setAccessToken since
  exchangePc,          \* where the handler of /api/set_access_token is
  exchangeArg,         \* the access token and item id it stores
  clearPc,             \* where the call of clearTokens is
  setDuringClear,      \* setAccessToken was called while this clearTokens ran
  cleared              \* clearTokens has completed and setAccessToken was not called since

tokVars == <<cachedAccessToken, cachedItemId, secretStore, getPc, getValue,
             getAfterClear, exchangePc, exchangeArg, clearPc, setDuringClear,
                 cleared>>

\* What the steps of the export script leave alone.
nonRunVars == <<credVars, pageVars, sheetVars, mapVars, dirVars, tokVars>>

\* What the steps of a paginated fetch leave alone.
nonPageVars == <<runVars, credVars, sheetVars, mapVars, dirVars, tokVars>>

\* What the steps of an export to the sheet leave alone.
nonSheetVars == <<runVars, credVars, pageVars, mapVars, dirVars, tokVars>>

\* What an export mapping leaves alone.
nonMapVars == <<runVars, credVars, pageVars, sheetVars, dirVars, tokVars>>

\* What the writing of export files leaves alone.
nonDirVars == <<runVars, credVars, pageVars, sheetVars, mapVars, tokVars>>

\* What the token manager leaves alone.
nonTokVars == <<runVars, credVars, pageVars, sheetVars, mapVars, dirVars>>

vars == <<runVars, credVars, pageVars, sheetVars, mapVars, dirVars, tokVars>>

\* The calls of getAccessToken that can be in progress together.
Getters == {"g1", "g2"}

\* The secrets of the token manager.
SecretNames == {"plaid-access-token", "plaid-item-id"}

\* The item ids Plaid gives on exchange.
ItemIds == {"item1"}

\* The dates the script runs on, numbered.
MaxDays == 2

Dates == 1..MaxDays

\* EXPORT_FORMAT, which is also the extension of the file.
Formats == {"xlsx", "csv"}

\* No file of that name.
Missing == [exists |-> FALSE, rows |-> <<>>]

\* A file holding rows.
FileOf(rows) == [exists |-> TRUE, rows |-> rows]

\* No row (yet).
NoRow == [kind |-> "none"]

\* The endpoints that call appendTransactions.
Calls == {"export-to-sheets", "scheduled-export"}

\* No value returned (yet).
NoResult == [added |-> -1, skipped |-> -1]

Init ==
  /\ cursorFile = NoFile
  /\ exportFile = "absent"
  /\ EXPORT_ACCOUNT_IDS \in {[null |-> TRUE, ids |-> {}], [null |-> FALSE, ids |-> {"a1"}]}
  /\ pc = "idle"
  /\ site = None
  /\ cursor = None
  /\ added = <<>> /\ modified = <<>> /\ removed = <<>>
  /\ hasMore = TRUE /\ nextCursor = None
  /\ transactions = <<>> /\ offset = 0
  /\ allTransactions = <<>>
  /\ normalizedTransactions = <<>>
  /\ exitCode = "running"
  /\ requests = <<>> /\ pages = <<>> /\ getRequests = <<>>
  /\ preRunFile = NoFile
  /\ saved = None /\ saveOutcome = "none"
  /\ errors = {} /\ syncErr = None
  /\ exported = FALSE
  /\ PLAID_ACCESS_TOKEN = "tokenA"
  /\ cursorWriter = None
  /\ fetcher = None
  /\ source = [T |-> 0, kind |-> "honest"]
  /\ fpc = "idle"
  /\ fetchOffset = 0 /\ total = -1 /\ fetched = <<>>
  /\ nRequests = 0 /\ firstTotal = -1
  /\ sheet = <<>>
  /\ headers = FALSE
  /\ cpc = [c \in Calls |-> "idle"]
  /\ sheetInput = [c \in Calls |-> <<>>]
  /\ existingIds = [c \in Calls |-> {}]
  /\ result = [c \in Calls |-> NoResult]
  /\ repeat = [c \in Calls |-> FALSE]
  /\ lastDone = [transactions |-> <<>>, ok |-> FALSE]
  /\ mapper = None
  /\ mapInput = NoRow
  /\ mapOutput = NoRow
  /\ mapAgain = NoRow
  /\ exportDir = [f \in Dates \X Formats |-> Missing]
  /\ today = 1
  /\ cachedAccessToken = None
  /\ cachedItemId = None
  /\ secretStore = [n \in SecretNames |-> "placeholder"]
  /\ getPc = [g \in Getters |-> "idle"]
  /\ getValue = [g \in Getters |-> None]
  /\ getAfterClear = [g \in Getters |-> FALSE]
  /\ exchangePc = "idle"
  /\ exchangeArg = <<None, None>>
  /\ clearPc = "idle"
  /\ setDuringClear = FALSE
  /\ cleared = FALSE

\* ------------------------------------------------------ fetchTransactionsSync

\* The request of one loop iteration: the cursor is set only if (nextCursor).
MakeRequest(c) ==
  [has_cursor |-> Truthy(c), cursor |-> IF Truthy(c) THEN c ELSE None]

LoopAgain_Never(has_more) == FALSE

\* while (hasMore), with hasMore = data.has_more.
LoopAgain(has_more) == has_more

Accumulate_Replace(acc, items) == items

\* acc.push(...items)
Accumulate(acc, items) == acc \o items

StoreDuringDrain_Checkpoint(file, data) == JsonFile(data.next_cursor)

\* The loop body touches no file: cursor.json after a page is cursor.json before it.
StoreDuringDrain(file, data) == file

\* fetchTransactionsSync(c) up to its first await: fresh locals, first request sent.
BeginDrain(c, s) ==
  /\ site' = s
  /\ added' = <<>> /\ modified' = <<>> /\ removed' = <<>>
  /\ hasMore' = TRUE
  /\ nextCursor' = c
  /\ requests' = << [current |-> c, request |-> MakeRequest(c)] >>
  /\ pages' = <<>>
  /\ pc' = "sync"

\* One answered transactionsSync request: accumulate, take has_more and
\* next_cursor, then either build the next request or return.
SyncResponse ==
  /\ pc = "sync"
  /\ \E data \in SyncPages :
       /\ data.has_more => Len(requests) < MaxPages
       /\ added' = Accumulate(added, data.added)
       /\ modified' = Accumulate(modified, data.modified)
       /\ removed' = Accumulate(removed, data.removed)
       /\ hasMore' = data.has_more
       /\ nextCursor' = data.next_cursor
       /\ pages' = Append(pages, data)
       /\ cursorFile' = StoreDuringDrain(cursorFile, data)
       /\ IF LoopAgain(data.has_more)
            THEN /\ requests' = Append(requests, [current |-> data.next_cursor,
                                                  request |-> MakeRequest(data.next_cursor)])
                 /\ pc' = "sync"
            ELSE /\ requests' = requests
                 /\ pc' = "drained"
  /\ UNCHANGED <<exportFile, EXPORT_ACCOUNT_IDS, site, cursor, transactions, offset,
                 allTransactions, normalizedTransactions, exitCode, getRequests,
                 preRunFile, saved, saveOutcome, errors, syncErr, exported>>

\* ------------------------------------------------------- fetchTransactionsGet

\* fetchTransactionsGet up to its first await: offset 0 requested.
BeginGet ==
  /\ transactions' = <<>>
  /\ offset' = 0
  /\ getRequests' = <<0>>
  /\ pc' = "get"

\* ------------------------------------------------------------------- main

\* saveCursor(c): writes the file; a throw is caught and logged, nothing is
\* returned either way.
saveCursor(c) ==
  \E o \in writeFileOutcomes(cursorFile, c) :
    /\ cursorFile' = o.file
    /\ saveOutcome' = IF o.ok THEN "ok" ELSE "failed"
    /\ saved' = c

\* filterTransactions
filterTransactions(ts) ==
  IF EXPORT_ACCOUNT_IDS.null \/ EXPORT_ACCOUNT_IDS.ids = {}
    THEN ts
    ELSE SelectSeq(ts, LAMBDA t : t.account_id \in EXPORT_ACCOUNT_IDS.ids)

\* normalizeTransactions, for the fields modelled.
normalizeTransactions(ts) ==
  [i \in 1..Len(ts) |->
     [transaction_id |-> ts[i].transaction_id,
      account_id |-> ts[i].account_id,
      pending |-> IF ts[i].pending THEN "Yes" ELSE "No"]]

\* main from its start to the first await: loadCursor, then the sync call of
\* line 394 (a cursor was loaded) or of line 412 (first run).
StartRun ==
  /\ pc \in {"idle", "done", "failed", "aborted"}
  /\ LET c == loadCursor(cursorFile) IN
       /\ cursor' = c
       /\ BeginDrain(c, IF Truthy(c) THEN "sync" ELSE "first")
  /\ preRunFile' = cursorFile
  /\ transactions' = <<>> /\ offset' = 0 /\ getRequests' = <<>>
  /\ allTransactions' = <<>>
  /\ normalizedTransactions' = <<>>
  /\ exitCode' = "running"
  /\ saved' = None /\ saveOutcome' = "none"
  /\ errors' = {} /\ syncErr' = None
  /\ exported' = FALSE
  /\ UNCHANGED <<cursorFile, exportFile, EXPORT_ACCOUNT_IDS>>

\* Lines 434-450: filter, return when nothing is left, else normalize and go
\* on to the export write.
Prepare(all) ==
  LET filteredTransactions == filterTransactions(all) IN
    IF Len(filteredTransactions) = 0
      THEN /\ pc' = "done"
           /\ exitCode' = "0"
           /\ normalizedTransactions' = <<>>
      ELSE /\ normalizedTransactions' = normalizeTransactions(filteredTransactions)
           /\ pc' = "export"
           /\ exitCode' = exitCode

OnInitError_Rethrow ==
  /\ pc' = "failed"
  /\ exitCode' = "1"
  /\ normalizedTransactions' = normalizedTransactions

\* Lines 428-431: catch (initErr) only warns; main goes on to filter and
\* export the records of the Get fetch.
OnInitError == Prepare(allTransactions)

\* A transactionsSync request throws; fetchTransactionsSync rethrows.
SyncFail ==
  /\ pc = "sync"
  /\ \E kind \in ErrorKinds :
       /\ errors' = errors \cup {kind}
       /\ \/ \* line 394: the outer catch ends the run
             /\ site = "sync"
             /\ pc' = "failed"
             /\ exitCode' = "1"
             /\ UNCHANGED <<syncErr, transactions, offset, getRequests,
                            normalizedTransactions>>
          \/ \* line 415: catch (syncErr), whatever the error: fall back to Get
             /\ site = "first"
             /\ syncErr' = kind
             /\ BeginGet
             /\ UNCHANGED <<exitCode, normalizedTransactions>>
          \/ \* line 428: catch (initErr): warn and go on with the Get records
             /\ site = "init"
             /\ OnInitError
             /\ UNCHANGED <<syncErr, transactions, offset, getRequests>>
  /\ UNCHANGED <<cursorFile, exportFile, EXPORT_ACCOUNT_IDS, site, cursor, added, modified,
                 removed, hasMore, nextCursor, allTransactions, requests, pages,
                 preRunFile, saved, saveOutcome, exported>>

TakeRecords_FromDrain(s, all) ==
  CASE s = "sync" -> added \o modified
    [] s = "first" -> added
    [] s = "init" -> added

\* The records main keeps from a finished drain: added and modified with a
\* loaded cursor (line 402), added on a first run (line 413), none from the
\* drain that only initializes the cursor (line 426).
TakeRecords(s, all) ==
  CASE s = "sync" -> added \o modified
    [] s = "first" -> added
    [] s = "init" -> all

\* fetchTransactionsSync has returned: main takes the records, saves the
\* cursor, then filters and normalizes.
AfterDrain ==
  /\ pc = "drained"
  /\ allTransactions' = TakeRecords(site, allTransactions)
  /\ saveCursor(nextCursor)
  /\ Prepare(TakeRecords(site, allTransactions))
  /\ UNCHANGED <<exportFile, EXPORT_ACCOUNT_IDS, site, cursor, added, modified, removed,
                 hasMore, nextCursor, transactions, offset, requests, pages, getRequests,
                 preRunFile, errors, syncErr, exported>>

\* One answered transactionsGet request; after the last page main starts the
\* sync call of line 426.
GetResponse ==
  /\ pc = "get"
  /\ \E page \in GetPages :
       /\ Len(page) = batchSize => Len(getRequests) < MaxPages
       /\ transactions' = transactions \o page
       /\ offset' = offset + Len(page)
       /\ IF Len(page) = batchSize
            THEN /\ getRequests' = Append(getRequests, offset + Len(page))
                 /\ pc' = "get"
                 /\ UNCHANGED <<allTransactions, site, added, modified, removed, hasMore,
                                nextCursor, requests, pages>>
            ELSE /\ getRequests' = getRequests
                 /\ allTransactions' = transactions \o page
                 /\ BeginDrain(None, "init")
  /\ UNCHANGED <<cursorFile, exportFile, EXPORT_ACCOUNT_IDS, cursor, normalizedTransactions,
                 exitCode, preRunFile, saved, saveOutcome, errors, syncErr, exported>>

\* A transactionsGet request throws: the outer catch ends the run.
GetFail ==
  /\ pc = "get"
  /\ \E kind \in ErrorKinds : errors' = errors \cup {kind}
  /\ pc' = "failed"
  /\ exitCode' = "1"
  /\ UNCHANGED <<cursorFile, exportFile, EXPORT_ACCOUNT_IDS, site, cursor, added, modified,
                 removed, hasMore, nextCursor, transactions, offset, allTransactions,
                 normalizedTransactions, requests, pages, getRequests, preRunFile, saved,
                 saveOutcome, syncErr, exported>>

\* exportToXLSX / exportToCSV: the file is written whole with the rows of
\* normalizedTransactions, or the write throws (leaving the old file, or a
\* truncated one) and the outer catch ends the run.  The script never reads
\* the file back.
Export ==
  /\ pc = "export"
  /\ \/ /\ exportFile' = "written"
        /\ exported' = TRUE
        /\ pc' = "done"
        /\ exitCode' = "0"
     \/ /\ exportFile' \in {exportFile, "truncated"}
        /\ exported' = FALSE
        /\ pc' = "failed"
        /\ exitCode' = "1"
  /\ UNCHANGED <<cursorFile, EXPORT_ACCOUNT_IDS, site, cursor, added, modified, removed,
                 hasMore, nextCursor, transactions, offset, allTransactions,
                 normalizedTransactions, requests, pages, getRequests, preRunFile, saved,
                 saveOutcome, errors, syncErr>>

\* The process is killed (shutdown, crash) while a run is under way.
Abort ==
  /\ pc \in {"sync", "drained", "get", "export"}
  /\ pc' = "aborted"
  /\ exitCode' = "killed"
  /\ UNCHANGED <<cursorFile, exportFile, EXPORT_ACCOUNT_IDS, site, cursor, added, modified,
                 removed, hasMore, nextCursor, transactions, offset, allTransactions,
                 normalizedTransactions, requests, pages, getRequests, preRunFile, saved,
                 saveOutcome, errors, syncErr, exported>>

\* The export script run again and again with one access token.
Next ==
  \/ StartRun /\ UNCHANGED nonRunVars
  \/ SyncResponse /\ UNCHANGED nonRunVars
  \/ SyncFail /\ UNCHANGED nonRunVars
  \/ AfterDrain /\ UNCHANGED nonRunVars
  \/ GetResponse /\ UNCHANGED nonRunVars
  \/ GetFail /\ UNCHANGED nonRunVars
  \/ Export /\ UNCHANGED nonRunVars
  \/ Abort /\ UNCHANGED nonRunVars

Spec == Init /\ [][Next]_vars

\* ------------------------------------------- runs with different credentials

\* A run is started with whatever PLAID_ACCESS_TOKEN the environment holds
\* (line 93); CURSOR_FILE (line 103) does not depend on it.
StartRunAs ==
  /\ StartRun
  /\ PLAID_ACCESS_TOKEN' \in Tokens
  /\ UNCHANGED <<cursorWriter, pageVars, sheetVars, mapVars, dirVars, tokVars>>

\* saveCursor writes the one cursor.json whatever the credential.
AfterDrainAs ==
  /\ AfterDrain
  /\ cursorWriter' = IF saveOutcome' = "ok" THEN PLAID_ACCESS_TOKEN ELSE cursorWriter
  /\ UNCHANGED <<PLAID_ACCESS_TOKEN, pageVars, sheetVars, mapVars, dirVars, tokVars>>

NextCred ==
  \/ StartRunAs
  \/ AfterDrainAs
  \/ SyncResponse /\ UNCHANGED nonRunVars
  \/ SyncFail /\ UNCHANGED nonRunVars
  \/ GetResponse /\ UNCHANGED nonRunVars
  \/ GetFail /\ UNCHANGED nonRunVars
  \/ Export /\ UNCHANGED nonRunVars
  \/ Abort /\ UNCHANGED nonRunVars

SpecCred == Init /\ [][NextCred]_vars

\* --------------------------------------------------------- paginated fetch

\* const pageSize = 500 in fetchAllTransactions, scaled down.
pageSize == 2

\* const PAGE_SIZE = 500 in fetchTransactions, scaled down.
PAGE_SIZE == 2

\* let total = null: no total read yet.
NoTotal == -1

Fetchers == {"fetchAllTransactions", "fetchTransactionsGet", "fetchTransactions"}

\* options.count of the requests of fetcher f.
CountOf(f) ==
  CASE f = "fetchAllTransactions" -> pageSize
    [] f = "fetchTransactionsGet" -> batchSize
    [] f = "fetchTransactions" -> PAGE_SIZE

\* How many records the source may hold: none, one, one page, one page and
\* one more, ten pages.
Sizes == {0, 1, pageSize, pageSize + 1, 10 * pageSize}

\* Offsets from OffsetCap on are all beyond every record of every source:
\* the model does not tell them apart.
OffsetCap == 10 * pageSize + 2 * pageSize

\* nRequests counts up to MaxRequests and stays there.
MaxRequests == 12

Min(a, b) == IF a <= b THEN a ELSE b

\* The records of a source holding T of them, in the order it serves them.
Records(T) == [i \in 1..T |-> i]

\* The page a well-behaved source serves at offset off for count records.
HonestPage(T, off, count) ==
  IF off >= T THEN <<>> ELSE SubSeq(Records(T), off + 1, Min(off + count, T))

\* response.data of a transactionsGet request.  A well-behaved source serves
\* the full page and the true total; another one may serve a shorter or empty
\* page and a total that is one too high.
Responses(src, off, count) ==
  LET h == HonestPage(src.T, off, count) IN
    IF src.kind = "honest"
      THEN { [transactions |-> h, total_transactions |-> src.T] }
      ELSE { [transactions |-> SubSeq(h, 1, k), total_transactions |-> t] :
               k \in 0..Len(h), t \in {src.T, src.T + 1} }

\* The sources a call may face: a well-behaved one of every size, any other
\* one only with up to a page and one record.
Sources ==
  { [T |-> T, kind |-> "honest"] : T \in Sizes }
    \cup { [T |-> T, kind |-> "any"] : T \in 0..(pageSize + 1) }

\* The initial value of let total.
InitialTotal(f) ==
  CASE f = "fetchAllTransactions" -> NoTotal
    [] f = "fetchTransactionsGet" -> NoTotal
    [] f = "fetchTransactions" -> 1

NextOffset_Stuck(f, off, page) == off

\* offset += pageSize (fetchAllTransactions); offset += page length (the others).
NextOffset(f, off, page) ==
  CASE f = "fetchAllTransactions" -> off + pageSize
    [] f = "fetchTransactionsGet" -> off + Len(page)
    [] f = "fetchTransactions" -> off + Len(page)

\* total after a response: fetchAllTransactions reads it from the first
\* response, fetchTransactions from every response, fetchTransactionsGet never.
NextTotal(f, tot, data, isFirst) ==
  CASE f = "fetchAllTransactions" -> IF isFirst THEN data.total_transactions ELSE tot
    [] f = "fetchTransactionsGet" -> tot
    [] f = "fetchTransactions" -> data.total_transactions

Continue_Always(f, all, off, tot, page) == TRUE

\* The loop condition after a response: all.length < total; hasMore =
\* (page length === batchSize); offset < total.
Continue(f, all, off, tot, page) ==
  CASE f = "fetchAllTransactions" -> Len(all) < tot
    [] f = "fetchTransactionsGet" -> Len(page) = batchSize
    [] f = "fetchTransactions" -> off < tot

\* One of the three functions is called and runs to its first await: the
\* request for offset 0.  fetchAllTransactions throws before it when
\* getAccessToken returns nothing.
CallFetch ==
  /\ fpc \in {"idle", "returned", "failed"}
  /\ \E f \in Fetchers, src \in Sources :
       /\ fetcher' = f
       /\ source' = src
       /\ fetchOffset' = 0
       /\ total' = InitialTotal(f)
       /\ fetched' = <<>>
       /\ firstTotal' = NoTotal
       /\ \/ /\ fpc' = "awaiting"
             /\ nRequests' = 1
          \/ /\ f = "fetchAllTransactions"
             /\ fpc' = "failed"
             /\ nRequests' = 0
  /\ UNCHANGED nonPageVars

\* The awaited transactionsGet request is answered: concatenate, advance the
\* offset, take the total, test the loop condition.
PageResponse ==
  /\ fpc = "awaiting"
  /\ \E data \in Responses(source, fetchOffset, CountOf(fetcher)) :
       LET all == fetched \o data.transactions
           off == Min(NextOffset(fetcher, fetchOffset, data.transactions), OffsetCap)
           tot == NextTotal(fetcher, total, data, firstTotal = NoTotal)
       IN /\ fetched' = all
          /\ fetchOffset' = off
          /\ total' = tot
          /\ firstTotal' = IF firstTotal = NoTotal THEN data.total_transactions
                                                   ELSE firstTotal
          /\ fpc' = IF Continue(fetcher, all, off, tot, data.transactions)
                      THEN "looping" ELSE "returned"
  /\ UNCHANGED <<fetcher, source, nRequests>>
  /\ UNCHANGED nonPageVars

\* The loop body starts again: the next transactionsGet request is sent.
PageRequest ==
  /\ fpc = "looping"
  /\ fpc' = "awaiting"
  /\ nRequests' = Min(nRequests + 1, MaxRequests)
  /\ UNCHANGED <<fetcher, source, fetchOffset, total, fetched, firstTotal>>
  /\ UNCHANGED nonPageVars

\* The awaited request throws: the function throws.
PageFail ==
  /\ fpc = "awaiting"
  /\ fpc' = "failed"
  /\ UNCHANGED <<fetcher, source, fetchOffset, total, fetched, nRequests, firstTotal>>
  /\ UNCHANGED nonPageVars

NextPage ==
  \/ CallFetch
  \/ PageResponse
  \/ PageRequest
  \/ PageFail

SpecPage == Init /\ [][NextPage]_vars

\* Every awaited request is answered or fails, and the loop goes on when its
\* condition holds.
SpecPageFair ==
  Init /\ [][NextPage]_vars /\ WF_vars(PageResponse \/ PageFail) /\ WF_vars(PageRequest)

\* ------------------------------------------------------ export to the sheet

\* The sheet never holds more than MaxRows data rows in the model.
MaxRows == 4

\* What fetchAllTransactions can hand to appendTransactions.
Batches ==
  { <<>>, <<Txn("t1")>>, <<Txn("t1"), Txn("t2")>>, <<Txn("t2"), Txn("t2")>> }

\* The row appendTransactions writes for transaction t, for the columns modelled.
SheetRow(t) ==
  [transaction_id |-> t.transaction_id,
   account_id |-> t.account_id,
   status |-> IF t.pending THEN "Pending" ELSE "Posted"]

\* The id column I:I as getExistingTransactionIds reads it.
IdColumn(rows) == { rows[i].transaction_id : i \in 1..Len(rows) }

\* getExistingTransactionIds: the set of the ids in column I, or, when the
\* read throws, an empty set (the catch returns new Set()).
ReadOutcomes(rows) == { IdColumn(rows), {} }

NewTransactions_All(ts, ids) == ts

\* transactions.filter(t => !existingIds.has(t.transaction_id))
NewTransactions(ts, ids) == SelectSeq(ts, LAMBDA t : t.transaction_id \notin ids)

InFlight(c) == cpc[c] \in {"headers", "read", "append"}

\* The handler of endpoint c has fetched the transactions and calls
\* appendTransactions, which runs to its first await in ensureHeadersExist;
\* or the fetch throws and the handler answers 500.
StartExport(c) ==
  /\ ~InFlight(c)
  /\ \E ts \in Batches :
       /\ sheetInput' = [sheetInput EXCEPT ![c] = ts]
       /\ repeat' = [repeat EXCEPT ![c] =
                       /\ lastDone.ok
                       /\ lastDone.transactions = ts
                       /\ \A d \in Calls : ~InFlight(d)]
  /\ \/ cpc' = [cpc EXCEPT ![c] = "headers"]
     \/ cpc' = [cpc EXCEPT ![c] = "failed"]
  /\ existingIds' = [existingIds EXCEPT ![c] = {}]
  /\ result' = [result EXCEPT ![c] = NoResult]
  /\ UNCHANGED <<sheet, headers, lastDone>>
  /\ UNCHANGED nonSheetVars

\* The call has ended: it is the call that ended last.
EndCall(c, ok) ==
  lastDone' = [transactions |-> sheetInput[c], ok |-> ok]

\* ensureHeadersExist: read A1:H1, write the headers when the row is empty;
\* a throw is rethrown and appendTransactions rethrows it.
EnsureHeaders(c) ==
  /\ cpc[c] = "headers"
  /\ \/ /\ headers' = TRUE
        /\ cpc' = [cpc EXCEPT ![c] = "read"]
        /\ UNCHANGED lastDone
     \/ /\ headers' = headers
        /\ cpc' = [cpc EXCEPT ![c] = "failed"]
        /\ EndCall(c, FALSE)
  /\ UNCHANGED <<sheet, sheetInput, existingIds, result, repeat>>
  /\ UNCHANGED nonSheetVars

\* getExistingTransactionIds has answered; appendTransactions filters, and
\* returns when nothing is new, else sends the one append request.
ReadIds(c) ==
  /\ cpc[c] = "read"
  /\ \E ids \in ReadOutcomes(sheet) :
       /\ existingIds' = [existingIds EXCEPT ![c] = ids]
       /\ IF Len(NewTransactions(sheetInput[c], ids)) = 0
            THEN /\ result' = [result EXCEPT ![c] =
                                 [added |-> 0, skipped |-> Len(sheetInput[c])]]
                 /\ cpc' = [cpc EXCEPT ![c] = "returned"]
                 /\ EndCall(c, TRUE)
            ELSE /\ cpc' = [cpc EXCEPT ![c] = "append"]
                 /\ UNCHANGED <<result, lastDone>>
  /\ UNCHANGED <<sheet, headers, sheetInput, repeat>>
  /\ UNCHANGED nonSheetVars

\* values.append has answered: the rows are at the end of the sheet and the
\* counts are returned; or it throws and appendTransactions rethrows.
AppendRows(c) ==
  /\ cpc[c] = "append"
  /\ LET newTransactions == NewTransactions(sheetInput[c], existingIds[c])
         rows == [i \in 1..Len(newTransactions) |-> SheetRow(newTransactions[i])]
     IN \/ /\ Len(sheet) + Len(rows) <= MaxRows
           /\ sheet' = sheet \o rows
           /\ result' = [result EXCEPT ![c] =
                           [added |-> Len(newTransactions),
                            skipped |-> Len(sheetInput[c]) - Len(newTransactions)]]
           /\ cpc' = [cpc EXCEPT ![c] = "returned"]
           /\ EndCall(c, TRUE)
        \/ /\ cpc' = [cpc EXCEPT ![c] = "failed"]
           /\ EndCall(c, FALSE)
           /\ UNCHANGED <<sheet, result>>
  /\ UNCHANGED <<headers, sheetInput, existingIds, repeat>>
  /\ UNCHANGED nonSheetVars

\* The server handles one export request at a time.
NextSheet ==
  \/ \E c \in Calls : (\A d \in Calls : ~InFlight(d)) /\ StartExport(c)
  \/ \E c \in Calls : EnsureHeaders(c)
  \/ \E c \in Calls : ReadIds(c)
  \/ \E c \in Calls : AppendRows(c)

SpecSheet == Init /\ [][NextSheet]_vars

\* The server handles export requests as they come: the handlers interleave
\* at their awaits.
NextSheetConc ==
  \/ \E c \in Calls : StartExport(c)
  \/ \E c \in Calls : EnsureHeaders(c)
  \/ \E c \in Calls : ReadIds(c)
  \/ \E c \in Calls : AppendRows(c)

SpecSheetConc == Init /\ [][NextSheetConc]_vars

\* ------------------------------------------------------- export mappings

Mappers == {"normalizeTransactions", "toSheetRows", "appendTransactions"}

\* t.category as the upstream can send it: null, missing, a list of labels,
\* or something that is not a list.
Categories ==
  { [kind |-> "null"], [kind |-> "undefined"],
    [kind |-> "list", labels |-> <<>>],
    [kind |-> "list", labels |-> <<"Food">>],
    [kind |-> "list", labels |-> <<"Food", "Coffee">>],
    [kind |-> "string", value |-> "Food"] }

\* t.amount: an outflow, an inflow, zero.
Amounts == {12, -5, 0}

\* t.iso_currency_code and t.unofficial_currency_code: a code or null.
IsoCodes == {None, "USD", "EUR"}

UnofficialCodes == {None, "BTC"}

\* The transactions put through the mappings.
MapInputs ==
  [category : Categories, amount : Amounts,
   iso_currency_code : IsoCodes, unofficial_currency_code : UnofficialCodes]

\* Array.prototype.join(sep)
RECURSIVE Join(_, _)
Join(labels, sep) ==
  IF Len(labels) = 0 THEN ""
  ELSE IF Len(labels) = 1 THEN labels[1]
  ELSE labels[1] \o sep \o Join(Tail(labels), sep)

\* The mapping threw a TypeError.
Threw == [kind |-> "throw"]

\* The category column: [kind |-> "value", value |-> the string], or Threw.
\* normalizeTransactions: Array.isArray(t.category) ? t.category.join(' / ') : ''
\* toSheetRows: (t.category || []).join(' > ')
\* appendTransactions: t.category?.join(' / ') || ''
CategoryColumn(m, cat) ==
  CASE m = "normalizeTransactions" ->
         [kind |-> "value",
          value |-> IF cat.kind = "list" THEN Join(cat.labels, " / ") ELSE ""]
    [] m = "toSheetRows" ->
         IF cat.kind = "list" THEN [kind |-> "value", value |-> Join(cat.labels, " > ")]
         ELSE IF cat.kind = "string" THEN Threw
         ELSE [kind |-> "value", value |-> ""]
    [] m = "appendTransactions" ->
         IF cat.kind = "list" THEN [kind |-> "value", value |-> Join(cat.labels, " / ")]
         ELSE IF cat.kind = "string" THEN Threw
         ELSE [kind |-> "value", value |-> ""]

\* The currency column.
\* normalizeTransactions: t.iso_currency_code || ''
\* toSheetRows: t.iso_currency_code || t.unofficial_currency_code || ''
\* appendTransactions: t.iso_currency_code || 'USD'
CurrencyColumn(m, t) ==
  CASE m = "normalizeTransactions" ->
         IF t.iso_currency_code # None THEN t.iso_currency_code ELSE ""
    [] m = "toSheetRows" ->
         IF t.iso_currency_code # None THEN t.iso_currency_code
         ELSE IF t.unofficial_currency_code # None THEN t.unofficial_currency_code
         ELSE ""
    [] m = "appendTransactions" ->
         IF t.iso_currency_code # None THEN t.iso_currency_code ELSE "USD"

\* The amount column: t.amount in all three.
AmountColumn(m, t) == t.amount

\* The row mapping m makes of transaction t, for the columns modelled.
MapRow(m, t) ==
  LET c == CategoryColumn(m, t.category) IN
    IF c = Threw THEN Threw
    ELSE [kind |-> "row", category |-> c.value,
          amount |-> AmountColumn(m, t), currency |-> CurrencyColumn(m, t)]

\* A transaction goes through one of the mappings.
MapTransaction ==
  /\ \E m \in Mappers, t \in MapInputs :
       /\ mapper' = m
       /\ mapInput' = t
       /\ mapOutput' = MapRow(m, t)
  /\ mapAgain' = NoRow
  /\ UNCHANGED nonMapVars

\* The same transaction goes through the same mapping once more.
MapTransactionAgain ==
  /\ mapOutput # NoRow
  /\ mapAgain = NoRow
  /\ mapAgain' = MapRow(mapper, mapInput)
  /\ UNCHANGED <<mapper, mapInput, mapOutput>>
  /\ UNCHANGED nonMapVars

NextMap ==
  \/ MapTransaction
  \/ MapTransactionAgain

SpecMap == Init /\ [][NextMap]_vars

\* ------------------------------------------------------ export directory

\* The non-empty lists of transactions a run can reach line 444 with.
ExportBatches == { <<Txn("t1")>>, <<Txn("t2"), Txn("t3")>>, <<Txn("t4")>> }

\* path.join(exportDirPath, `transactions_${date}.${extension}`)
Filename(date, format) == <<date, format>>

\* exportToXLSX / exportToCSV: the file of that name holds the rows given,
\* whatever it held.
WriteFile(dir, filename, rows) == [dir EXCEPT ![filename] = FileOf(rows)]

\* A run of main reaches line 444 with transactions to export: it normalizes
\* them, names the file after the date and the format, and writes it; or the
\* write throws, leaving the file as it was or emptied.
WriteExport ==
  /\ \E ts \in ExportBatches, format \in Formats :
       LET rows == normalizeTransactions(ts)
           filename == Filename(today, format)
       IN \/ exportDir' = WriteFile(exportDir, filename, rows)
          \/ /\ exportDir[filename] # Missing
             /\ exportDir' = WriteFile(exportDir, filename, <<>>)
  /\ UNCHANGED today
  /\ UNCHANGED nonDirVars

\* Midnight.
NextDay ==
  /\ today < MaxDays
  /\ today' = today + 1
  /\ UNCHANGED exportDir
  /\ UNCHANGED nonDirVars

NextDir ==
  \/ WriteExport
  \/ NextDay

SpecDir == Init /\ [][NextDir]_vars

\* --------------------------------------------------------- token manager

\* getSecret when accessSecretVersion answers: the payload, or null for the
\* placeholder and for an empty payload.
getSecret(store, secretName) ==
  IF store[secretName] = "placeholder" \/ store[secretName] = ""
    THEN None ELSE store[secretName]

\* The stores setSecret can leave: addSecretVersion adds the version, or throws
\* and setSecret returns false with the store as it was.
setSecret(store, secretName, value) ==
  { [store EXCEPT ![secretName] = value], store }

\* getAccessToken up to its await: the cached token if there is one, else the
\* call asks Secret Manager.
GetAccessTokenCall(g) ==
  /\ getPc[g] = "idle"
  /\ getAfterClear' = [getAfterClear EXCEPT ![g] = cleared]
  /\ IF cachedAccessToken # None
       THEN /\ getPc' = [getPc EXCEPT ![g] = "returned"]
            /\ getValue' = [getValue EXCEPT ![g] = cachedAccessToken]
       ELSE /\ getPc' = [getPc EXCEPT ![g] = "awaiting"]
            /\ getValue' = [getValue EXCEPT ![g] = None]
  /\ UNCHANGED <<cachedAccessToken, cachedItemId, secretStore, exchangePc,
                 exchangeArg, clearPc, setDuringClear,
                 cleared>>
  /\ UNCHANGED nonTokVars

\* Secret Manager serves the read of the call: getSecret has the payload of
\* that moment, or null because accessSecretVersion threw.
GetSecretAnswer(g) ==
  /\ getPc[g] = "awaiting"
  /\ \E payload \in {getSecret(secretStore, "plaid-access-token"), None} :
       getValue' = [getValue EXCEPT ![g] = payload]
  /\ getPc' = [getPc EXCEPT ![g] = "answered"]
  /\ UNCHANGED <<cachedAccessToken, cachedItemId, secretStore, getAfterClear,
                 exchangePc, exchangeArg, clearPc, setDuringClear,
                 cleared>>
  /\ UNCHANGED nonTokVars

\* getAccessToken after its await: it caches what getSecret gave and returns it.
GetAccessTokenResume(g) ==
  /\ getPc[g] = "answered"
  /\ cachedAccessToken' = getValue[g]
  /\ getPc' = [getPc EXCEPT ![g] = "returned"]
  /\ UNCHANGED <<cachedItemId, secretStore, getValue, getAfterClear,
                 exchangePc, exchangeArg, clearPc, setDuringClear,
                 cleared>>
  /\ UNCHANGED nonTokVars

\* The caller has used the value; the next call can begin.
GetAccessTokenEnd(g) ==
  /\ getPc[g] = "returned"
  /\ getPc' = [getPc EXCEPT ![g] = "idle"]
  /\ getValue' = [getValue EXCEPT ![g] = None]
  /\ getAfterClear' = [getAfterClear EXCEPT ![g] = FALSE]
  /\ UNCHANGED <<cachedAccessToken, cachedItemId, secretStore, exchangePc,
                 exchangeArg, clearPc, setDuringClear,
                 cleared>>
  /\ UNCHANGED nonTokVars

\* POST /api/set_access_token after the exchange: setAccessToken caches the
\* token and asks Secret Manager to store it.
SetAccessTokenCall ==
  /\ exchangePc = "idle"
  /\ \E token \in Tokens, itemId \in ItemIds :
       /\ cachedAccessToken' = token
       /\ exchangeArg' = <<token, itemId>>
  /\ exchangePc' = "token"
  /\ cleared' = FALSE
  /\ getAfterClear' = [g \in Getters |-> FALSE]
  /\ setDuringClear' = (clearPc # "idle")
  /\ UNCHANGED <<cachedItemId, secretStore, getPc, getValue, clearPc>>
  /\ UNCHANGED nonTokVars

\* setSecret of the token ends, stored or not; the handler goes on to
\* setItemId, which caches the item id and asks Secret Manager to store it.
SetItemIdCall ==
  /\ exchangePc = "token"
  /\ secretStore' \in setSecret(secretStore, "plaid-access-token", exchangeArg[1])
  /\ cachedItemId' = exchangeArg[2]
  /\ exchangePc' = "item"
  /\ UNCHANGED <<cachedAccessToken, getPc, getValue, getAfterClear,
                 exchangeArg, clearPc, setDuringClear,
                 cleared>>
  /\ UNCHANGED nonTokVars

\* setSecret of the item id ends, stored or not; the handler answers.
ExchangeEnd ==
  /\ exchangePc = "item"
  /\ secretStore' \in setSecret(secretStore, "plaid-item-id", exchangeArg[2])
  /\ exchangePc' = "idle"
  /\ exchangeArg' = <<None, None>>
  /\ UNCHANGED <<cachedAccessToken, cachedItemId, getPc, getValue,
                 getAfterClear, clearPc, setDuringClear,
                 cleared>>
  /\ UNCHANGED nonTokVars

\* clearTokens up to its first await: both caches are null and Secret Manager
\* is asked to store the placeholder as the token.
ClearTokensCall ==
  /\ clearPc = "idle"
  /\ cachedAccessToken' = None
  /\ cachedItemId' = None
  /\ clearPc' = "token"
  /\ setDuringClear' = FALSE
  /\ UNCHANGED <<secretStore, getPc, getValue, getAfterClear, exchangePc,
                 exchangeArg, cleared>>
  /\ UNCHANGED nonTokVars

\* setSecret of the token placeholder ends, stored or not (the result is not
\* looked at); Secret Manager is asked to store the placeholder as the item id.
ClearTokensSecond ==
  /\ clearPc = "token"
  /\ secretStore' \in setSecret(secretStore, "plaid-access-token", "placeholder")
  /\ clearPc' = "item"
  /\ UNCHANGED <<cachedAccessToken, cachedItemId, getPc, getValue,
                 getAfterClear, exchangePc, exchangeArg, setDuringClear,
                 cleared>>
  /\ UNCHANGED nonTokVars

\* setSecret of the item placeholder ends, stored or not; clearTokens has
\* completed.
ClearTokensEnd ==
  /\ clearPc = "item"
  /\ secretStore' \in setSecret(secretStore, "plaid-item-id", "placeholder")
  /\ clearPc' = "idle"
  /\ cleared' = ~setDuringClear
  /\ UNCHANGED <<cachedAccessToken, cachedItemId, getPc, getValue,
                 getAfterClear, exchangePc, exchangeArg, setDuringClear>>
  /\ UNCHANGED nonTokVars

NextTok ==
  \/ \E g \in Getters : GetAccessTokenCall(g)
  \/ \E g \in Getters : GetSecretAnswer(g)
  \/ \E g \in Getters : GetAccessTokenResume(g)
  \/ \E g \in Getters : GetAccessTokenEnd(g)
  \/ SetAccessTokenCall
  \/ SetItemIdCall
  \/ ExchangeEnd
  \/ ClearTokensCall
  \/ ClearTokensSecond
  \/ ClearTokensEnd

SpecTok == Init /\ [][NextTok]_vars

\* ------------------------------------------------------------------ claims

\* The run has ended (returned, exited with an error, or was killed).
Ended == pc \in {"done", "failed", "aborted"}

\* The concatenation, in page order, of field f of the pages ps.
RECURSIVE Gather(_, _)
Gather(ps, f) ==
  IF ps = <<>> THEN <<>> ELSE Gather(SubSeq(ps, 1, Len(ps) - 1), f) \o ps[Len(ps)][f]

\* The two pages of the scenario of the specification's section 8.
ScenarioPage1 ==
  [added |-> <<Txn("t1"), Txn("t2"), Txn("t3")>>, modified |-> <<>>, removed |-> <<>>,
   has_more |-> TRUE, next_cursor |-> "c1"]

ScenarioPage2 ==
  [added |-> <<Txn("t4")>>, modified |-> <<Txn("t5")>>, removed |-> <<Removed("t6")>>,
   has_more |-> FALSE, next_cursor |-> "c2"]

\* C1 (write-before-checkpoint): in every run that has rows to export,
\* saveCursor writes the cursor only after the run's export write has succeeded, so a
\* run that failed or was killed before its export write succeeded leaves
\* cursor.json as it was before the run.  (A run with no row to export has no
\* export write to wait for.)
C1_WriteBeforeCheckpoint ==
  /\ (saveOutcome = "ok" /\ normalizedTransactions # <<>>) => exported
  /\ (pc \in {"failed", "aborted"} /\ ~exported) => cursorFile = preRunFile

\* C2: whatever saveCursor is given, and so whatever cursor a run writes to
\* cursor.json, is the next_cursor of the last response of a drain, and that
\* response had has_more = false; nothing else changes the file's cursor.
C2_SavedIsFinalCursor ==
  /\ saveOutcome # "none" =>
       /\ pages # <<>>
       /\ ~pages[Len(pages)].has_more
       /\ saved = pages[Len(pages)].next_cursor
  /\ cursorFile # preRunFile =>
       /\ saveOutcome # "none"
       /\ cursorFile \in {JsonFile(saved), Unparsable}

\* C2 witness: a two-page drain whose intermediate cursor differs from its
\* final one has been saved, and the file holds the final one.
C2_Witness ==
  /\ saveOutcome = "ok"
  /\ Len(pages) = 2
  /\ pages[1].next_cursor = "c1"
  /\ cursorFile = JsonFile("c2")

\* C3: a run in which a request failed for a generic reason (not the
\* sync-unsupported signal) persists no cursor: cursor.json is as before the run.
C3_FetchFailureKeepsCursor ==
  "generic" \in errors => cursorFile = preRunFile

\* C4: a run calls transactionsGet only after the upstream signalled that
\* sync is unsupported; a generic failure of a sync request never leads there.
C4_FallbackOnlyWhenUnsupported ==
  getRequests # <<>> => syncErr = "sync_unsupported"

\* C5: a run whose saveCursor failed does not end like a fully successful one
\* (exit code 0).
C5_SaveFailureReported ==
  (saveOutcome = "failed" /\ pc = "done") => exitCode # "0"

\* C6: when saveCursor failed in a run, the store still yields the cursor that
\* run started from, and the next run's first sync request carries that cursor
\* (or none, when the run started from none).
C6_StaleCursorRerun ==
  [][ (saveOutcome = "failed" /\ Ended /\ pc' = "sync") =>
        /\ loadCursor(cursorFile) = cursor
        /\ requests'[1].request = [has_cursor |-> cursor # None, cursor |-> cursor] ]_vars

\* C7: when fetchTransactionsSync returns after K responses, it has issued K
\* requests, every response but the last had has_more = true, added, modified
\* and removed are the page-order concatenations of the responses' lists, and
\* the returned cursor is the last response's next_cursor.
C7_DrainCompleteness ==
  pc = "drained" =>
    LET K == Len(pages) IN
      /\ K >= 1
      /\ Len(requests) = K
      /\ \A i \in 1..(K - 1) : pages[i].has_more
      /\ ~pages[K].has_more
      /\ added = Gather(pages, "added")
      /\ modified = Gather(pages, "modified")
      /\ removed = Gather(pages, "removed")
      /\ nextCursor = pages[K].next_cursor

\* C7 witness: a returned drain of two pages that both carried added records.
C7_Witness ==
  /\ pc = "drained"
  /\ Len(pages) = 2
  /\ pages[1].added # <<>>
  /\ pages[2].added # <<>>
  /\ pages[2].removed # <<>>

\* C8: every sync request of a drain omits the cursor exactly when the
\* current cursor is null, sends a string cursor (the empty one included) as
\* it is, and after the first request the current cursor is the previous
\* response's next_cursor.
C8_CursorOmittedIffNone ==
  \A i \in 1..Len(requests) :
    /\ requests[i].request.has_cursor <=> requests[i].current # None
    /\ requests[i].current # None => requests[i].request.cursor = requests[i].current
    /\ (i > 1 /\ i - 1 <= Len(pages)) => requests[i].current = pages[i - 1].next_cursor

\* C9: while a drain is under way, when it has just returned, and in a run
\* that failed or was killed before any saveCursor call, cursor.json is as it
\* was when the run started.
C9_DrainLeavesStore ==
  (pc \in {"sync", "drained"} \/ (pc \in {"failed", "aborted"} /\ saveOutcome = "none"))
    => cursorFile = preRunFile

\* C9 witness: a run that started from the stored cursor c2 was killed
\* between two sync pages, the first of which announced the cursor c1.
C9_Witness ==
  /\ pc = "aborted"
  /\ preRunFile = JsonFile("c2")
  /\ Len(requests) = 2
  /\ Len(pages) = 1
  /\ pages[1].next_cursor = "c1"
  /\ cursorFile = JsonFile("c2")

\* C10: in the scenario (no stored cursor, no account filter, the two pages
\* above, every write succeeding) the drain returns 4 added, 1 modified,
\* 1 removed and c2, the run exports 5 rows, and cursor.json holds c2.
C10_Scenario ==
  ( /\ preRunFile = NoFile
    /\ EXPORT_ACCOUNT_IDS.null
    /\ site = "first"
    /\ pages = <<ScenarioPage1, ScenarioPage2>>
    /\ saveOutcome = "ok"
    /\ pc = "done" )
  => /\ Len(added) = 4 /\ Len(modified) = 1 /\ Len(removed) = 1
     /\ nextCursor = "c2"
     /\ exported
     /\ Len(normalizedTransactions) = 5
     /\ cursorFile = JsonFile("c2")

\* The transaction ids of a list of records or rows.
Ids(ts) == { ts[i].transaction_id : i \in 1..Len(ts) }

\* C11: no row a run hands to the export carries the id of a transaction that
\* the run's drain reported as removed, also when an earlier page of the same
\* drain reported that id as added or modified.  (The drain that only
\* initializes the cursor after the fallback is not the source of the rows.)
C11_RemovalsApplied ==
  (site \in {"sync", "first"} /\ pc \in {"export", "done"})
    => Ids(normalizedTransactions) \cap Ids(removed) = {}

\* C12: when the first sync of a run failed, the Get fetch succeeded and the
\* initializing drain succeeded and was saved, the rows of the run are the
\* (filtered, normalized) records of the Get fetch and nothing of the
\* initializing drain; that drain was one complete drain started without a
\* cursor; cursor.json holds the next_cursor of its last page.
C12_FallbackInitialized ==
  (site = "init" /\ pc \in {"export", "done"} /\ saveOutcome = "ok") =>
    /\ allTransactions = transactions
    /\ normalizedTransactions = normalizeTransactions(filterTransactions(transactions))
    /\ Len(requests) = Len(pages)
    /\ requests[1].current = None /\ ~requests[1].request.has_cursor
    /\ \A i \in 1..Len(pages) : pages[i].has_more <=> i < Len(pages)
    /\ saved = pages[Len(pages)].next_cursor
    /\ cursorFile = JsonFile(saved)

\* A fallback run ended with rows exported although the initializing drain had
\* returned records of its own, and with that drain's cursor saved.
C12_Witness ==
  /\ site = "init" /\ pc = "done" /\ exported /\ saveOutcome = "ok"
  /\ added # <<>>
  /\ Ids(added) \cap Ids(transactions) = {}

\* C13: when a request of the initializing drain fails, the run is not ended:
\* it goes on to the export (or returns with nothing to export) with the rows
\* of the Get fetch, cursor.json is what it was when the run started and holds
\* no cursor; the run that follows starts without a cursor.
C13_InitFailureTolerated ==
  [][ /\ (pc = "sync" /\ site = "init" /\ pc' \notin {"sync", "drained", "aborted"}) =>
           /\ pc' \in {"export", "done"}
           /\ exitCode' # "1"
           /\ pc' = "done" => exitCode' = "0"
           /\ normalizedTransactions' = normalizeTransactions(filterTransactions(transactions))
           /\ saveOutcome' = "none"
           /\ cursorFile' = preRunFile
           /\ loadCursor(cursorFile') = None
      /\ (Ended /\ site = "init" /\ saveOutcome = "none" /\ pc' = "sync") =>
           /\ site' = "first"
           /\ cursor' = None
           /\ ~requests'[1].request.has_cursor
    ]_vars

\* A fallback run whose initializing drain failed ended with its rows exported
\* and exit code 0.
C13_Witness ==
  /\ site = "init" /\ pc = "done" /\ exported /\ exitCode = "0"
  /\ saveOutcome = "none"
  /\ Len(pages) < Len(requests)

\* C14: the run that follows a fallback run which saved the cursor of its
\* initializing drain loads that cursor and takes the sync path with it; a
\* run on the sync path issues no transactionsGet request.
C14_FallbackOnce ==
  [][ /\ (Ended /\ site = "init" /\ saveOutcome = "ok" /\ pc' = "sync") =>
           /\ site' = "sync"
           /\ cursor' = saved
           /\ requests'[1].request.has_cursor
           /\ requests'[1].request.cursor = saved
      /\ site' = "sync" => getRequests' = <<>>
    ]_vars

\* C17: the cursor a run loads from cursor.json and sends with its first
\* sync request was saved by a run with the same access token.
C17_CursorPerCredential ==
  (pc = "sync" /\ site = "sync" /\ Len(requests) = 1) =>
    /\ requests[1].request.cursor = loadCursor(cursorFile)
    /\ cursorWriter = PLAID_ACCESS_TOKEN

\* C18: against a well-behaved source holding T records (T none, one, one
\* page, one page and one, ten pages), each of the three paginated fetches
\* returns exactly the T records, each once, in the source's order.
C18_PaginationTotality ==
  (fpc = "returned" /\ source.kind = "honest") => fetched = Records(source.T)

\* fetchAllTransactions has returned ten pages of records.
C18_Witness ==
  /\ fpc = "returned" /\ source.kind = "honest"
  /\ fetcher = "fetchAllTransactions"
  /\ source.T = 10 * pageSize
  /\ Len(fetched) = 10 * pageSize
  /\ nRequests >= 10

\* C19: the total in use is the one of the first response, and after every
\* response a further request follows exactly when fewer records than that
\* total have been retrieved.
C19_StoppingRule ==
  /\ (fpc \in {"looping", "returned"} /\ fetcher # "fetchTransactionsGet") => total = firstTotal
  /\ fpc = "looping" => Len(fetched) < firstTotal
  /\ fpc = "returned" => Len(fetched) >= firstTotal

\* C20: a call of fetchAllTransactions or fetchTransactions that awaits a
\* response eventually returns or throws, whatever the source answers.
C20_FetchTerminates ==
  (fpc = "awaiting" /\ fetcher \in {"fetchAllTransactions", "fetchTransactions"})
    ~> (fpc \in {"returned", "failed"})

\* C15: while an export runs that fetched the same transactions as the export
\* that returned just before it, with nothing else in between, no row is
\* written to the sheet.
C15_IdempotentExport ==
  [][ \A c \in Calls : (InFlight(c) /\ repeat[c]) => sheet' = sheet ]_vars

\* C16: a call of appendTransactions that repeats the input of the call that
\* returned just before it sends no append request, and returns added = 0
\* and skipped = the number of input rows.
C16_AppendIdempotent ==
  \A c \in Calls :
    repeat[c] =>
      /\ cpc[c] # "append"
      /\ cpc[c] = "returned" =>
           result[c] = [added |-> 0, skipped |-> Len(sheetInput[c])]

\* C21: when the source holds no record and its first response reports total
\* 0 with an empty page, the fetch has returned an empty result after exactly
\* one request.
C21_EmptyInterval ==
  (source.T = 0 /\ firstTotal = 0) =>
    /\ fpc = "returned"
    /\ nRequests = 1
    /\ fetched = <<>>

\* fetchTransactions, which starts with total = 1, has returned from an
\* empty interval.
C21_Witness ==
  /\ source.T = 0 /\ firstTotal = 0
  /\ fetcher = "fetchTransactions"
  /\ fpc = "returned" /\ nRequests = 1

\* The rows of those transactions of ts whose id is not in ids, in the order of ts.
RECURSIVE ExpectedRows(_, _)
ExpectedRows(ts, ids) ==
  IF ts = <<>> THEN <<>>
  ELSE (IF Head(ts).transaction_id \in ids THEN <<>> ELSE <<SheetRow(Head(ts))>>)
         \o ExpectedRows(Tail(ts), ids)

\* C22: a call of appendTransactions changes the sheet in one step only, the
\* answered append request, which puts at the end of the sheet the rows of the
\* input transactions whose id is not among the ids the call read, in input
\* order; the call sends no append request when no such row exists; it
\* returns added = the number of those rows and skipped = the rest of the input.
C22_AppendsNewRowsOnce ==
  [][ /\ \A c \in Calls :
           /\ (cpc[c] = "append" /\ cpc'[c] = "returned") =>
                LET rows == ExpectedRows(sheetInput[c], existingIds[c]) IN
                  /\ rows # <<>>
                  /\ sheet' = sheet \o rows
                  /\ result'[c] = [added |-> Len(rows),
                                   skipped |-> Len(sheetInput[c]) - Len(rows)]
           /\ (cpc[c] = "read" /\ cpc'[c] = "returned") =>
                /\ ExpectedRows(sheetInput[c], existingIds'[c]) = <<>>
                /\ result'[c] = [added |-> 0, skipped |-> Len(sheetInput[c])]
           /\ (cpc[c] = "read" /\ cpc'[c] = "append") =>
                ExpectedRows(sheetInput[c], existingIds'[c]) # <<>>
      /\ (\A c \in Calls : ~(cpc[c] = "append" /\ cpc'[c] = "returned")) => sheet' = sheet
    ]_vars

\* A call has returned after writing one of its two input rows and skipping
\* the other.
C22_Witness ==
  \E c \in Calls :
    /\ cpc[c] = "returned"
    /\ Len(sheetInput[c]) = 2
    /\ result[c] = [added |-> 1, skipped |-> 1]
    /\ sheet[Len(sheet)] = SheetRow(sheetInput[c][2])

\* C23: loadCursor returns null while cursor.json was never written, and
\* after a saveCursor call whose write succeeded it returns the cursor that
\* call was given.
C23_CursorRoundTrip ==
  /\ cursorFile = NoFile => loadCursor(cursorFile) = None
  /\ saveOutcome = "ok" => loadCursor(cursorFile) = saved

\* C24: whatever the mapping, the category column of the row is the labels of
\* t.category joined in order with ' / ' when t.category is a list, and the
\* empty string otherwise; mapping the same transaction again gives the same row.
C24_CategoryFlattened ==
  mapOutput # NoRow =>
    /\ mapOutput.kind = "row"
    /\ mapOutput.category =
         (IF mapInput.category.kind = "list"
            THEN Join(mapInput.category.labels, " / ") ELSE "")
    /\ mapAgain # NoRow => mapAgain = mapOutput

\* C25: the amount of the row is t.amount, and its currency column is the
\* record's ISO code or, when the record has none, a code the record carries
\* or the empty string.
C25_AmountCurrencyUnchanged ==
  (mapOutput # NoRow /\ mapOutput.kind = "row") =>
    /\ mapOutput.amount = mapInput.amount
    /\ mapInput.iso_currency_code # None =>
         mapOutput.currency = mapInput.iso_currency_code
    /\ mapOutput.currency \in
         {"", mapInput.iso_currency_code, mapInput.unofficial_currency_code} \ {None}

\* No transaction id is in two rows.
UniqueIds(rows) ==
  \A i, j \in 1..Len(rows) : rows[i].transaction_id = rows[j].transaction_id => i = j

\* C26: with the export requests handled one after the other, starting from
\* an empty sheet, no transaction id is ever in two rows of the sheet.
C26_SinkKeyUnique == UniqueIds(sheet)

\* C27: with overlapping export requests, the append of a call whose input
\* repeats no id and whose read of the id column succeeded (it returned ids)
\* leaves no transaction id in two rows if none was before.
C27_OverlapKeepsKeysUnique ==
  [][ \A c \in Calls :
        ( /\ cpc[c] = "append" /\ cpc'[c] = "returned"
          /\ UniqueIds(sheet)
          /\ UniqueIds(sheetInput[c])
          /\ existingIds[c] # {} )
        => UniqueIds(sheet')
    ]_vars

\* C28: an answered append request never adds a row whose transaction id was
\* in the sheet already; with the requests handled one after the other the
\* call read the id column of that very sheet.
C28_ReadFailureAppendsNothing ==
  [][ \A c \in Calls :
        (cpc[c] = "append" /\ cpc'[c] = "returned") =>
          \A i \in (Len(sheet) + 1)..Len(sheet') :
            sheet'[i].transaction_id \notin IdColumn(sheet)
    ]_vars

\* The rows held by the files of the export directory.
RowsIn(dir) ==
  UNION { { dir[f].rows[i] : i \in 1..Len(dir[f].rows) } : f \in DOMAIN dir }

\* C29: an export write that succeeds (the file written holds its rows)
\* removes no row from the export directory: every row some file held before
\* is in some file afterwards.
C29_ExportsKept ==
  [][ (\E f \in DOMAIN exportDir : exportDir'[f] # exportDir[f] /\ exportDir'[f].rows # <<>>)
        => RowsIn(exportDir) \subseteq RowsIn(exportDir') ]_vars

\* C30: a call of getAccessToken that began after clearTokens completed, with
\* no call of setAccessToken since, returns null.
C30_NullAfterClear ==
  \A g \in Getters :
    (getPc[g] = "returned" /\ getAfterClear[g]) => getValue[g] = None

====
